---- MODULE Spec2Model ----
(***************************************************************************)
(* The turn-taking pipeline of the live-translation page, the              *)
(* /api/translate route (src/unnamed/part_000) and the three-stage         *)
(* pipeline behind it (src/app/lib/openai-translator.ts).                  *)
(*                                                                         *)
(* src/app/page.tsx holds two TranslatorPage components: the first         *)
(* (driver / counter, one conversation thread, a playback controller) and  *)
(* the second (driver / receptionist, two panes, no playback control).     *)
(* One of them is mounted: page says which.  The definitions of the second *)
(* carry the prefix Dual, and its state the suffix 2 where the first has   *)
(* state of the same name.                                                 *)
(*                                                                         *)
(* The page is a single-threaded event loop.  Every action below is one   *)
(* task of that loop: a user event handler run up to its first pending     *)
(* await, or the continuation that an asynchronous completion resumes, run *)
(* up to its next pending await.  React state is read as of the render in *)
(* which a closure was created: a handler invoked by a user event sees the *)
(* current state, a continuation after an await sees the values its        *)
(* closure captured (kept in the session record).                          *)
(*                                                                         *)
(* To the page the route is one function from the request and the          *)
(* collaborators' answers to the response (POST, translateAudio).  The      *)
(* route handler itself, one await at a time, is the variable server; its   *)
(* behaviours are those of ServerSpec.                                      *)
(***************************************************************************)
EXTENDS Integers, Sequences, FiniteSets, TLC

\* ------------------------------------------------------------------ bounds
MaxSessions == 2      \* handleRecording invocations that reach getUserMedia
MaxSources  == 2      \* audio sources alive at once (decoding, playing, or
                      \* stopped with their ended event still due)
MaxClock    == 2      \* readings of Date.now()

\* ------------------------------------------------------------------ values
Roles == {"driver", "counter"}

Null      == 0             \* null of a ref or of playingMessageId
Undefined == "undefined"   \* a property missing from a parsed JSON body
NoContent == "<null>"      \* message.content === null of a chat completion
NoAudio   == <<>>          \* an audioBase64 property that is missing

Texts       == {"hallo"}            \* what the recognizer hears
DetectLangs == {"pl", "ro"}         \* what the recognizer detects
Translation == "hello"              \* what the translator writes, if anything

Sessions == 1..MaxSessions
Sources  == 1..MaxSources

VARIABLES
    detectedDriverLang,   \* useState<string>('')
    recordingState,       \* driverRecording / counterRecording, by role
    conversation,         \* useState<Message[]>([])
    playingMessageId,     \* useState<string | null>(null)
    recorder,             \* driverMediaRecorder / counterMediaRecorder .current
    chunks,               \* driverAudioChunks / counterAudioChunks .current
    currentAudioSource,   \* currentAudioSource.current (currentAudioContext.current
                          \* is written at the same three places, to the context
                          \* of the same source)
    sessions,             \* one per handleRecording invocation that starts:
                          \* its closure, its MediaRecorder, its stream, its onstop
    audioSources,         \* the sources of the playAudio invocations that reached
                          \* the decode and are not over yet
    now,                  \* Date.now()
    toggleRun,            \* history only: the run of handleToggleAudio calls on
                          \* one message that began with the playback idle
    page,                 \* which TranslatorPage is mounted
    selectedLang,         \* useState<string | null>(null), null = AUTO
    detectedLang,         \* useState('nl')
    recordingState2,      \* driverRecording / staffRecording, by role
    driverConversation,   \* useState<Message[]>([])
    receptionistConversation,
    recorder2,            \* driverMediaRecorder / staffMediaRecorder .current
    chunks2,              \* driverAudioChunks / staffAudioChunks .current
    sessions2,            \* as sessions, of the second component
    server,               \* the route handler serving one request: where it
                          \* is, its locals, what it has invoked, its response
    inFlight,             \* history only: the sessions whose fetch is pending,
                          \* in the order they were submitted
    history               \* history only: what the last step was, where a
                          \* property needs to know

dualVars == <<selectedLang, detectedLang, recordingState2, driverConversation,
              receptionistConversation, recorder2, chunks2, sessions2>>

vars == <<detectedDriverLang, recordingState, conversation, playingMessageId,
          recorder, chunks, currentAudioSource, sessions, audioSources, now,
          toggleRun, page, dualVars, server, inFlight, history>>

\* All but the route handler.
pageVars == <<detectedDriverLang, recordingState, conversation,
              playingMessageId, recorder, chunks, currentAudioSource, sessions,
              audioSources, now, toggleRun, page, dualVars, inFlight, history>>

\* ------------------------------------------------- the server: the pipeline

\* String.prototype.toLowerCase on the language codes that reach textToSpeech.
ToLowerCase(s) ==
    CASE s = "NL" -> "nl"
      [] s = "EN" -> "en"
      [] s = "PL" -> "pl"
      [] s = "RO" -> "ro"
      [] OTHER    -> s

\* The voice switch of textToSpeech.
VoiceFor(language) ==
    LET l == ToLowerCase(language) IN
    CASE l \in {"nl", "dutch"}    -> "nova"
      [] l \in {"en", "english"}  -> "echo"
      [] l \in {"fr", "french"}   -> "shimmer"
      [] l \in {"de", "german"}   -> "onyx"
      [] l \in {"es", "spanish"}  -> "shimmer"
      [] l \in {"it", "italian"}  -> "nova"
      [] l \in {"pl", "polish"}   -> "alloy"
      [] l \in {"ro", "romanian"} -> "shimmer"
      [] OTHER                    -> "alloy"

\* What the three collaborators answer to one request.  ok = FALSE: the
\* collaborator's call rejects.
RecognizerAnswers ==
    {[ok |-> FALSE, text |-> Undefined, language |-> Undefined]}
    \cup [ok : {TRUE}, text : Texts, language : DetectLangs]
TranslatorAnswers ==
    {[ok |-> FALSE, content |-> NoContent]}
    \cup [ok : {TRUE}, content : {NoContent, "", Translation}]
SynthesizerAnswers == [ok : BOOLEAN]
Collaborators ==
    [recognizer : RecognizerAnswers, translator : TranslatorAnswers,
     synthesizer : SynthesizerAnswers]

\* translateText without its fallback.
translateTextNoFallback(text, content) == content

\* translateText: completion.choices[0].message.content || text
translateText(text, content) ==
    IF content = NoContent \/ content = "" THEN text ELSE content

\* textToSpeech: the bytes of the speech are what was said, in which voice.
textToSpeech(text, language) == <<text, VoiceFor(language)>>

\* translateAudio: the three awaits in order; the first rejection is thrown.
translateAudio(targetLang, c) ==
    IF ~c.recognizer.ok THEN [threw |-> TRUE, stage |-> "Recognize"]
    ELSE IF ~c.translator.ok THEN [threw |-> TRUE, stage |-> "Translate"]
    ELSE IF ~c.synthesizer.ok THEN [threw |-> TRUE, stage |-> "Synthesize"]
    ELSE
      LET translatedText == translateText(c.recognizer.text, c.translator.content)
      IN  [threw            |-> FALSE,
           originalText     |-> c.recognizer.text,
           originalLanguage |-> c.recognizer.language,
           translatedText   |-> translatedText,
           targetLanguage   |-> targetLang,
           audio            |-> textToSpeech(translatedText, targetLang)]

\* Buffer.toString('base64') and atob: the encoded form is tagged.
Base64(bytes) == <<"b64">> \o bytes
IsBase64(s)   == Len(s) > 0 /\ s[1] = "b64"
atob(s)       == Tail(s)

\* The JSON body of a response that has none of the result's properties.
ErrorBody ==
    [originalText |-> Undefined, originalLanguage |-> Undefined,
     translatedText |-> Undefined, targetLanguage |-> Undefined,
     audioBase64 |-> NoAudio]

\* POST of /api/translate: status and the body as the page reads it.
POST(hasAudio, targetLangField, c) ==
    LET targetLang == IF targetLangField = "" THEN "en" ELSE targetLangField IN
    IF ~hasAudio
    THEN [status |-> 400, body |-> ErrorBody]
    ELSE LET result == translateAudio(targetLang, c) IN
         IF result.threw
         THEN [status |-> 500, body |-> ErrorBody]
         ELSE [status |-> 200,
               body |-> [originalText     |-> result.originalText,
                         originalLanguage |-> result.originalLanguage,
                         translatedText   |-> result.translatedText,
                         targetLanguage   |-> result.targetLanguage,
                         audioBase64      |-> Base64(result.audio)]]

\* ------------------------------------------- the server, one await at a time

\* The stages of translateAudio, in the order of its three awaits.
Stages == <<"Recognize", "Translate", "Synthesize">>

\* formData.get('targetLang') of a request: "" when the field is absent.
TargetFields == {"", "nl", "en", "pl"}

\* The messages of the errors a collaborator's call rejects with.
Errors == {"Connection error.", "Rate limit reached"}

\* The recognizer hears nothing: transcription.text is the empty string.
EmptyRecognitions == [ok : {TRUE}, text : {""}, language : DetectLangs]

\* The handler between requests.  invoked: the collaborators called for the
\* request, in order; returned: those whose call resolved; failed: the stage
\* whose call rejected.
NoRequest ==
    [pc |-> "idle", hasAudio |-> FALSE, targetLang |-> Undefined,
     text |-> Undefined, language |-> Undefined, translatedText |-> Undefined,
     invoked |-> <<>>, returned |-> <<>>, failed |-> "none",
     response |-> [status |-> Null, body |-> [error |-> ""]]]

\* The catch of POST: status 500, a fixed error and the thrown error's message.
Caught(stage, message) ==
    [server EXCEPT !.pc = "responded",
                   !.failed = stage,
                   !.response = [status |-> 500,
                                 body |-> [error |-> "Translation failed",
                                           details |-> message]]]

\* POST that goes on without looking at audioFile.
POSTReceivedUnchecked(hasAudio, targetLangField) ==
    /\ server.pc \in {"idle", "responded"}
    /\ server' = [NoRequest EXCEPT
                    !.pc = "transcribing",
                    !.hasAudio = hasAudio,
                    !.targetLang = IF targetLangField = "" THEN "en"
                                   ELSE targetLangField,
                    !.invoked = <<"Recognize">>]
    /\ UNCHANGED pageVars

\* POST up to its first pending collaborator: the form is read; without an
\* audio field the answer is 400; else translateAudio is entered and
\* transcribeAudio calls the recognizer.
POSTReceived(hasAudio, targetLangField) ==
    LET targetLang == IF targetLangField = "" THEN "en" ELSE targetLangField IN
    /\ server.pc \in {"idle", "responded"}
    /\ server' =
         IF ~hasAudio
         THEN [NoRequest EXCEPT
                 !.pc = "responded",
                 !.targetLang = targetLang,
                 !.response = [status |-> 400,
                               body |-> [error |-> "No audio file provided"]]]
         ELSE [NoRequest EXCEPT
                 !.pc = "transcribing",
                 !.hasAudio = TRUE,
                 !.targetLang = targetLang,
                 !.invoked = <<"Recognize">>]
    /\ UNCHANGED pageVars

\* The recognizer answers: transcribeAudio returns text and language as they
\* came and translateText calls the translator, or the rejection is caught.
TranscriptionAnswered(a, message) ==
    /\ server.pc = "transcribing"
    /\ server' =
         IF a.ok
         THEN [server EXCEPT !.pc = "translating",
                             !.text = a.text,
                             !.language = a.language,
                             !.returned = Append(@, "Recognize"),
                             !.invoked = Append(@, "Translate")]
         ELSE Caught("Recognize", message)
    /\ UNCHANGED pageVars

\* translateText that calls the translator a second time when it rejects.
CompletionAnsweredRetries(a, message) ==
    /\ server.pc = "translating"
    /\ server' =
         IF a.ok
         THEN [server EXCEPT !.pc = "synthesizing",
                             !.translatedText = translateText(server.text, a.content),
                             !.returned = Append(@, "Translate"),
                             !.invoked = Append(@, "Synthesize")]
         ELSE IF Len(server.invoked) < 3
         THEN [server EXCEPT !.invoked = Append(@, "Translate")]
         ELSE Caught("Translate", message)
    /\ UNCHANGED pageVars

\* The translator answers: translateText returns and textToSpeech calls the
\* synthesizer, or the rejection is caught.
CompletionAnswered(a, message) ==
    /\ server.pc = "translating"
    /\ server' =
         IF a.ok
         THEN [server EXCEPT !.pc = "synthesizing",
                             !.translatedText = translateText(server.text, a.content),
                             !.returned = Append(@, "Translate"),
                             !.invoked = Append(@, "Synthesize")]
         ELSE Caught("Translate", message)
    /\ UNCHANGED pageVars

\* The synthesizer answers: translateAudio returns its result and POST answers
\* with it, the audio in base64; or the rejection is caught.
SpeechAnswered(a, message) ==
    /\ server.pc = "synthesizing"
    /\ server' =
         IF a.ok
         THEN [server EXCEPT
                 !.pc = "responded",
                 !.returned = Append(@, "Synthesize"),
                 !.response =
                    [status |-> 200,
                     body |-> [originalText     |-> server.text,
                               originalLanguage |-> server.language,
                               translatedText   |-> server.translatedText,
                               targetLanguage   |-> server.targetLang,
                               audioBase64      |->
                                  Base64(textToSpeech(server.translatedText,
                                                      server.targetLang))]]]
         ELSE Caught("Synthesize", message)
    /\ UNCHANGED pageVars

\* ------------------------------------------------------------ the page: state

Message(id, role, originalText, originalLang, translatedText, audioBase64) ==
    [id |-> id, role |-> role, originalText |-> originalText,
     originalLang |-> originalLang, translatedText |-> translatedText,
     audioBase64 |-> audioBase64]

Idle == [isRecording |-> FALSE, isProcessing |-> FALSE]

\* A session that no handleRecording invocation has taken yet.
NoSession == [pc |-> "free", role |-> "none", lang |-> "", targetLang |-> ""]

\* A session whose handleRecording invocation and onstop have both returned:
\* nothing refers to its closure any more.
DoneSession == [pc |-> "done", role |-> "none", lang |-> "", targetLang |-> ""]

\* No source: none made yet, or one whose life is over (it ended, or its
\* decode rejected) and to which nothing refers any more.
NoSource == [state |-> "none", messageId |-> Null, awaiter |-> Null]

\* No run of toggles is under way.
NoRun == [index |-> 0, n |-> 0]

\* The second component's roles, the AUTO choice and the languages of its
\* LANGUAGES list that the model lets the user pick.
DualRoles   == {"driver", "receptionist"}
Auto        == "<auto>"
SelectLangs == {"pl"}

\* A session of the second component that no invocation has taken yet.  It
\* keeps, besides detectedLang, the selectedLang and the isProcessing flag of
\* the render its handleRecording was created in.
NoSession2 ==
    [pc |-> "free", role |-> "none", lang |-> "", selected |-> Auto,
     processing |-> FALSE, targetLang |-> ""]

Init ==
    /\ page \in {"single", "dual"}
    /\ selectedLang = Auto
    /\ detectedLang = "nl"
    /\ recordingState2 = [r \in DualRoles |-> Idle]
    /\ driverConversation = <<>>
    /\ receptionistConversation = <<>>
    /\ recorder2 = [r \in DualRoles |-> Null]
    /\ chunks2 = [r \in DualRoles |-> <<>>]
    /\ sessions2 = [s \in Sessions |-> NoSession2]
    /\ detectedDriverLang = ""
    /\ recordingState = [r \in Roles |-> Idle]
    /\ conversation = <<>>
    /\ playingMessageId = Null
    /\ recorder = [r \in Roles |-> Null]
    /\ chunks = [r \in Roles |-> <<>>]
    /\ currentAudioSource = Null
    /\ sessions = [s \in Sessions |-> NoSession]
    /\ audioSources = [a \in Sources |-> NoSource]
    /\ now = 1
    /\ toggleRun = NoRun
    /\ server = NoRequest
    /\ inFlight = <<>>
    /\ history = "none"

\* The stream of a session is open from getUserMedia's answer until the track
\* stop() calls that end onstop.
StreamOpen(s) == sessions[s].pc \in {"recording", "stopping", "fetching", "awaitPlay"}

\* Where session s stands among the pending fetches, whether a fetch submitted
\* after its own has been answered before it, and the pending fetches once its
\* own is over (answered: those submitted before it have been overtaken).
Position(s)  == CHOOSE i \in 1..Len(inFlight) : inFlight[i].session = s
Overtaken(s) == inFlight[Position(s)].overtaken
InFlightAfter(s, answered) ==
    LET marked == [i \in 1..Len(inFlight) |->
                     IF answered /\ i < Position(s)
                     THEN [inFlight[i] EXCEPT !.overtaken = TRUE]
                     ELSE inFlight[i]]
    IN  SelectSeq(marked, LAMBDA e : e.session # s)

FreeSessions == {s \in Sessions : sessions[s].pc = "free"}
FreeSources  == {a \in Sources : audioSources[a].state = "none"}
Min(S)       == CHOOSE x \in S : \A y \in S : x <= y

\* ----------------------------------------------------------- the page: playback

\* Nothing is decoding or playing, no ended event is due, nothing is current.
PlaybackIdle ==
    /\ playingMessageId = Null
    /\ currentAudioSource = Null
    /\ \A a \in Sources : audioSources[a].state = "none"

\* The history of toggles after a call on message i: a call made with the
\* playback idle begins a run, a second call on the same message with nothing
\* but decode completions in between makes it a run of two.
ToggleRunAfter(i) ==
    IF PlaybackIdle THEN [index |-> i, n |-> 1]
    ELSE IF toggleRun = [index |-> i, n |-> 1] THEN [index |-> i, n |-> 2]
    ELSE NoRun

\* stopCurrentAudio, its effect on the sources: stop() of the referenced source
\* (a source that is not playing any more makes stop() throw, which is caught).
\* The refs and playingMessageId are set to null by every caller below.
stopCurrentAudio ==
    IF currentAudioSource # Null /\ audioSources[currentAudioSource].state = "playing"
    THEN [audioSources EXCEPT ![currentAudioSource].state = "stopped"]
    ELSE audioSources

\* playAudio up to its await: stopCurrentAudio(), atob (which throws on a missing
\* payload: the catch sets playingMessageId to null), then the pending decode.
\* awaiter is the session whose onstop awaits this call, or Null.
playAudio(audioBase64, messageId, awaiter) ==
    /\ currentAudioSource' = Null
    /\ playingMessageId' = Null
    /\ IF IsBase64(audioBase64)
       THEN /\ FreeSources # {}
            /\ audioSources' =
                 [stopCurrentAudio EXCEPT ![Min(FreeSources)] =
                    [state |-> "decoding", messageId |-> messageId,
                     awaiter |-> awaiter]]
       ELSE audioSources' = stopCurrentAudio

\* onstop whose flags are reset in the try block only.
FinallyKeepsFlags(s) ==
    /\ recordingState' = recordingState
    /\ sessions' = [sessions EXCEPT ![s] = DoneSession]

\* The finally block of onstop and the release of the stream after it.
Finally(s) ==
    /\ recordingState' = [recordingState EXCEPT ![sessions[s].role] = Idle]
    /\ sessions' = [sessions EXCEPT ![s] = DoneSession]

\* decodeAudioData resolves: the rest of playAudio, then whatever awaited it.
DecodeResolved(a) ==
    /\ audioSources[a].state = "decoding"
    /\ audioSources' = [audioSources EXCEPT ![a].state = "playing", ![a].awaiter = Null]
    /\ currentAudioSource' = a
    /\ playingMessageId' = audioSources[a].messageId
    /\ IF audioSources[a].awaiter # Null
       THEN Finally(audioSources[a].awaiter)
       ELSE UNCHANGED <<recordingState, sessions>>
    /\ inFlight' = inFlight
    /\ history' = "none"
    /\ UNCHANGED <<detectedDriverLang, conversation, recorder, chunks, now,
                   toggleRun,
                   page, dualVars, server>>

\* decodeAudioData rejects: the catch of playAudio, then whatever awaited it.
DecodeRejected(a) ==
    /\ audioSources[a].state = "decoding"
    /\ audioSources' = [audioSources EXCEPT ![a] = NoSource]
    /\ playingMessageId' = Null
    /\ IF audioSources[a].awaiter # Null
       THEN Finally(audioSources[a].awaiter)
       ELSE UNCHANGED <<recordingState, sessions>>
    /\ inFlight' = inFlight
    /\ history' = "none"
    /\ UNCHANGED <<detectedDriverLang, conversation, recorder, chunks,
                   currentAudioSource, now, toggleRun,
                   page, dualVars, server>>

\* source.onended that leaves playingMessageId as it is.
OnEndedKeepsPlaying(a) ==
    /\ audioSources[a].state \in {"playing", "stopped"}
    /\ audioSources' = [audioSources EXCEPT ![a] = NoSource]
    /\ currentAudioSource' = Null
    /\ toggleRun' = NoRun
    /\ inFlight' = inFlight
    /\ history' = IF /\ audioSources[a].state = "playing"
                     /\ audioSources[a].messageId = playingMessageId
                  THEN "ended" ELSE "none"
    /\ UNCHANGED <<detectedDriverLang, recordingState, conversation, recorder,
                   chunks, sessions, now, playingMessageId,
                   page, dualVars, server>>

\* source.onended: the source played to its end, or stop() was called on it.
OnEnded(a) ==
    /\ audioSources[a].state \in {"playing", "stopped"}
    /\ audioSources' = [audioSources EXCEPT ![a] = NoSource]
    /\ currentAudioSource' = Null
    /\ playingMessageId' = Null
    /\ toggleRun' = NoRun
    /\ inFlight' = inFlight
    /\ history' = IF /\ audioSources[a].state = "playing"
                     /\ audioSources[a].messageId = playingMessageId
                  THEN "ended" ELSE "none"
    /\ UNCHANGED <<detectedDriverLang, recordingState, conversation, recorder,
                   chunks, sessions, now,
                   page, dualVars, server>>

\* handleToggleAudio on the play button of the i-th message.
handleToggleAudio(i) ==
    /\ i \in 1..Len(conversation)
    /\ IF playingMessageId = conversation[i].id
       THEN /\ audioSources' = stopCurrentAudio
            /\ currentAudioSource' = Null
            /\ playingMessageId' = Null
       ELSE playAudio(conversation[i].audioBase64, conversation[i].id, Null)
    /\ toggleRun' = ToggleRunAfter(i)
    /\ inFlight' = inFlight
    /\ history' = "none"
    /\ UNCHANGED <<detectedDriverLang, recordingState, conversation, recorder,
                   chunks, sessions, now,
                   page, dualVars, server>>

\* clearConversation that forgets setDetectedDriverLang('').
clearConversationKeepsLang ==
    /\ audioSources' = stopCurrentAudio
    /\ currentAudioSource' = Null
    /\ playingMessageId' = Null
    /\ conversation' = <<>>
    /\ toggleRun' = NoRun
    /\ inFlight' = inFlight
    /\ history' = "cleared"
    /\ UNCHANGED <<detectedDriverLang, recordingState, recorder, chunks,
                   sessions, now,
                   page, dualVars, server>>

\* clearConversation that also gives up the calls that are under way.
clearConversationCancels ==
    /\ audioSources' = stopCurrentAudio
    /\ currentAudioSource' = Null
    /\ playingMessageId' = Null
    /\ conversation' = <<>>
    /\ detectedDriverLang' = ""
    /\ sessions' = [s \in Sessions |->
                      IF sessions[s].pc = "fetching" THEN DoneSession
                      ELSE sessions[s]]
    /\ toggleRun' = NoRun
    /\ inFlight' = <<>>
    /\ history' = "cleared"
    /\ UNCHANGED <<recordingState, recorder, chunks, now,
                   page, dualVars, server>>

\* clearConversation, the confirm accepted (declined, it does nothing).
clearConversation ==
    /\ audioSources' = stopCurrentAudio
    /\ currentAudioSource' = Null
    /\ playingMessageId' = Null
    /\ conversation' = <<>>
    /\ detectedDriverLang' = ""
    /\ toggleRun' = NoRun
    /\ inFlight' = inFlight
    /\ history' = "cleared"
    /\ UNCHANGED <<recordingState, recorder, chunks, sessions, now,
                   page, dualVars, server>>

\* ---------------------------------------------------------- the page: recording

\* targetLang with the route's default 'en' where the page's 'nl' belongs.
TargetForEnglish(role, lang) ==
    IF role = "driver" THEN "nl"
    ELSE IF lang = "" \/ lang = Undefined THEN "en" ELSE lang

\* targetLang of the request: isDriver ? 'nl' : (detectedDriverLang || 'nl')
TargetFor(role, lang) ==
    IF role = "driver" THEN "nl"
    ELSE IF lang = "" \/ lang = Undefined THEN "nl" ELSE lang

\* handleRecording, not recording and not processing: getUserMedia is awaited.
\* The closure keeps the detectedDriverLang of this render (kept here only for
\* the counter: with isDriver it is never read); the recordingState it keeps
\* is Idle, by the two guards.
HandleRecordingStart(role) ==
    /\ ~recordingState[role].isRecording
    /\ ~recordingState[role].isProcessing
    /\ FreeSessions # {}
    /\ sessions' = [sessions EXCEPT ![Min(FreeSessions)] =
                      [pc |-> "acquiring", role |-> role,
                       lang |-> IF role = "driver" THEN "" ELSE detectedDriverLang,
                       targetLang |-> ""]]
    /\ toggleRun' = NoRun
    /\ inFlight' = inFlight
    /\ history' = "none"
    /\ UNCHANGED <<detectedDriverLang, recordingState, conversation,
                   playingMessageId, recorder, chunks, currentAudioSource,
                   audioSources, now,
                   page, dualVars, server>>

\* handleRecording while recording: recorder.current?.stop(), isRecording off.
\* (While processing and not recording it returns at once: no step.)
HandleRecordingStop(role) ==
    /\ recordingState[role].isRecording
    /\ sessions' =
         IF recorder[role] # Null /\ sessions[recorder[role]].pc = "recording"
         THEN [sessions EXCEPT ![recorder[role]].pc = "stopping"]
         ELSE sessions
    /\ recordingState' = [recordingState EXCEPT ![role].isRecording = FALSE]
    /\ toggleRun' = NoRun
    /\ inFlight' = inFlight
    /\ history' = "none"
    /\ UNCHANGED <<detectedDriverLang, conversation, playingMessageId, recorder,
                   chunks, currentAudioSource, audioSources, now,
                   page, dualVars, server>>

\* getUserMedia resolves: the recorder is made and started.
GetUserMediaResolved(s) ==
    /\ sessions[s].pc = "acquiring"
    /\ recorder' = [recorder EXCEPT ![sessions[s].role] = s]
    /\ chunks' = [chunks EXCEPT ![sessions[s].role] = <<>>]
    /\ sessions' = [sessions EXCEPT ![s].pc = "recording"]
    /\ recordingState' = [recordingState EXCEPT ![sessions[s].role] =
                            [isRecording |-> TRUE, isProcessing |-> FALSE]]
    /\ toggleRun' = NoRun
    /\ inFlight' = inFlight
    /\ history' = "none"
    /\ UNCHANGED <<detectedDriverLang, conversation, playingMessageId,
                   currentAudioSource, audioSources, now,
                   page, dualVars, server>>

\* handleRecording that marks the role as recording before getUserMedia has
\* answered, and whose catch does not take it back.
GetUserMediaRejectedStaysRecording(s) ==
    /\ sessions[s].pc = "acquiring"
    /\ sessions' = [sessions EXCEPT ![s] = DoneSession]
    /\ recordingState' = [recordingState EXCEPT ![sessions[s].role] =
                            [isRecording |-> TRUE, isProcessing |-> FALSE]]
    /\ toggleRun' = NoRun
    /\ inFlight' = inFlight
    /\ history' = "denied"
    /\ UNCHANGED <<detectedDriverLang, conversation,
                   playingMessageId, recorder, chunks, currentAudioSource,
                   audioSources, now,
                   page, dualVars, server>>

\* getUserMedia rejects: the outer catch.
GetUserMediaRejected(s) ==
    /\ sessions[s].pc = "acquiring"
    /\ sessions' = [sessions EXCEPT ![s] = DoneSession]
    /\ toggleRun' = NoRun
    /\ inFlight' = inFlight
    /\ history' = "denied"
    /\ UNCHANGED <<detectedDriverLang, recordingState, conversation,
                   playingMessageId, recorder, chunks, currentAudioSource,
                   audioSources, now,
                   page, dualVars, server>>

\* The recorder's stop: dataavailable (start() was given no timeslice, so this
\* is the session's one fragment) and then onstop up to the fetch.
OnStop(s) ==
    LET role == sessions[s].role
        pushed == Append(chunks[role], s)
    IN  /\ sessions[s].pc = "stopping"
        /\ chunks' = [chunks EXCEPT ![role] = pushed]
        /\ recordingState' = [recordingState EXCEPT ![role] =
                                [isRecording |-> FALSE, isProcessing |-> TRUE]]
        /\ sessions' = [sessions EXCEPT ![s].pc = "fetching",
                                        ![s].lang = "",
                                        ![s].targetLang = TargetFor(role, sessions[s].lang)]
        /\ toggleRun' = NoRun
        /\ inFlight' = Append(inFlight, [session |-> s, overtaken |-> FALSE])
        /\ history' = "none"
        /\ UNCHANGED <<detectedDriverLang, conversation, playingMessageId,
                       recorder, currentAudioSource, audioSources, now,
                       page, dualVars, server>>

\* fetch or response.json() rejects: catch, finally, the stream released.
FetchRejected(s) ==
    /\ sessions[s].pc = "fetching"
    /\ Finally(s)
    /\ toggleRun' = NoRun
    /\ inFlight' = InFlightAfter(s, FALSE)
    /\ history' = "none"
    /\ UNCHANGED <<detectedDriverLang, conversation, playingMessageId, recorder,
                   chunks, currentAudioSource, audioSources, now,
                   page, dualVars, server>>

\* setConversation(prev => [...prev, message]) that puts the message first.
setConversationPrepends(prev, message) == <<message>> \o prev

\* setConversation(prev => [...prev, message]) without the spread of prev.
setConversationReplaces(prev, message) == <<message>>

\* setConversation(prev => [...prev, message]): the updater is given the
\* conversation as it is when the update is applied.
setConversation(prev, message) == Append(prev, message)

\* The turn built with the two texts in each other's place.
TurnOfSwapsTexts(role, result, id) ==
    Message(id, role, result.translatedText,
            IF role = "driver" THEN result.originalLanguage ELSE "nl",
            result.originalText, result.audioBase64)

\* The turn built from a parsed body.
TurnOf(role, result, id) ==
    Message(id, role, result.originalText,
            IF role = "driver" THEN result.originalLanguage ELSE "nl",
            result.translatedText, result.audioBase64)

\* Date.now() never runs backwards: since the reading before it the clock has
\* stood still (tick = 0) or moved on.
Ticks == {t \in {0, 1} : now + t <= MaxClock}

\* The route answers (whatever its status) and the body parses: the try block.
\* The turn's id is the clock as read now.
FetchResolved(s, c, tick) ==
    LET role     == sessions[s].role
        response == POST(TRUE, sessions[s].targetLang, c)
        result   == response.body
    IN  /\ sessions[s].pc = "fetching"
        /\ detectedDriverLang' =
             IF role = "driver" THEN result.originalLanguage ELSE detectedDriverLang
        /\ conversation' =
             setConversation(conversation, TurnOf(role, result, now + tick))
        /\ playAudio(result.audioBase64, now + tick, s)
        /\ IF IsBase64(result.audioBase64)
           THEN /\ sessions' = [sessions EXCEPT ![s].pc = "awaitPlay",
                                                ![s].targetLang = ""]
                /\ UNCHANGED recordingState
           ELSE Finally(s)
        /\ now' = now + tick
        /\ toggleRun' = NoRun
        /\ inFlight' = InFlightAfter(s, TRUE)
        /\ history' = IF Overtaken(s) THEN "overtaken" ELSE "none"
        /\ UNCHANGED <<recorder, chunks,
                       page, dualVars, server>>

\* ------------------------------------------- the second component (two panes)

singleVars == <<detectedDriverLang, recordingState, conversation,
                playingMessageId, recorder, chunks, currentAudioSource,
                sessions, audioSources, toggleRun, inFlight, history>>

FreeSessions2 == {s \in Sessions : sessions2[s].pc = "free"}

\* The second component never stops the tracks of a stream it was granted.
DualStreamOpen(s) ==
    sessions2[s].pc \in {"recording", "stopping", "fetching", "awaitPlay", "done"}

\* A session whose onstop has returned (done), or whose getUserMedia rejected
\* (denied).
EndedSession2(pc) == [NoSession2 EXCEPT !.pc = pc]

\* targetLang of the request: isDriver ? 'en' : (detectedLang || 'en')
DualTargetFor(role, lang) ==
    IF role = "driver" THEN "en"
    ELSE IF lang = "" \/ lang = Undefined THEN "en" ELSE lang

\* selectedLang || result.originalLanguage
ActualLang(selected, originalLanguage) ==
    IF selected = Auto THEN originalLanguage ELSE selected

\* The language buttons: setSelectedLang(null) and setSelectedLang(lang.code).
SetSelectedLang(l) ==
    /\ l # selectedLang
    /\ selectedLang' = l
    /\ UNCHANGED <<detectedLang, recordingState2, driverConversation,
                   receptionistConversation, recorder2, chunks2, sessions2,
                   now, page, singleVars, server>>

\* handleRecording while not recording: there is no guard on isProcessing.
DualHandleRecordingStart(role) ==
    /\ ~recordingState2[role].isRecording
    /\ FreeSessions2 # {}
    /\ sessions2' = [sessions2 EXCEPT ![Min(FreeSessions2)] =
                       [pc |-> "acquiring", role |-> role,
                        lang |-> IF role = "driver" THEN "" ELSE detectedLang,
                        selected |-> IF role = "driver" THEN selectedLang ELSE Auto,
                        processing |-> recordingState2[role].isProcessing,
                        targetLang |-> ""]]
    /\ UNCHANGED <<selectedLang, detectedLang, recordingState2,
                   driverConversation, receptionistConversation, recorder2,
                   chunks2, now, page, singleVars, server>>

\* handleRecording while recording.
DualHandleRecordingStop(role) ==
    /\ recordingState2[role].isRecording
    /\ sessions2' =
         IF recorder2[role] # Null /\ sessions2[recorder2[role]].pc = "recording"
         THEN [sessions2 EXCEPT ![recorder2[role]].pc = "stopping"]
         ELSE sessions2
    /\ recordingState2' = [recordingState2 EXCEPT ![role].isRecording = FALSE]
    /\ UNCHANGED <<selectedLang, detectedLang, driverConversation,
                   receptionistConversation, recorder2, chunks2, now, page,
                   singleVars, server>>

\* getUserMedia resolves.
DualGetUserMediaResolved(s) ==
    /\ sessions2[s].pc = "acquiring"
    /\ recorder2' = [recorder2 EXCEPT ![sessions2[s].role] = s]
    /\ chunks2' = [chunks2 EXCEPT ![sessions2[s].role] = <<>>]
    /\ sessions2' = [sessions2 EXCEPT ![s].pc = "recording"]
    /\ recordingState2' = [recordingState2 EXCEPT ![sessions2[s].role] =
                             [isRecording |-> TRUE,
                              isProcessing |-> sessions2[s].processing]]
    /\ UNCHANGED <<selectedLang, detectedLang, driverConversation,
                   receptionistConversation, now, page, singleVars, server>>

\* getUserMedia rejects.
DualGetUserMediaRejected(s) ==
    /\ sessions2[s].pc = "acquiring"
    /\ sessions2' = [sessions2 EXCEPT ![s] = EndedSession2("denied")]
    /\ UNCHANGED <<selectedLang, detectedLang, recordingState2,
                   driverConversation, receptionistConversation, recorder2,
                   chunks2, now, page, singleVars, server>>

\* The recorder's stop: dataavailable, then onstop up to the fetch.
DualOnStop(s) ==
    LET role == sessions2[s].role IN
    /\ sessions2[s].pc = "stopping"
    /\ chunks2' = [chunks2 EXCEPT ![role] = Append(chunks2[role], s)]
    /\ recordingState2' = [recordingState2 EXCEPT ![role] =
                             [isRecording |-> FALSE, isProcessing |-> TRUE]]
    /\ sessions2' = [sessions2 EXCEPT ![s].pc = "fetching",
                                      ![s].lang = "",
                                      ![s].processing = FALSE,
                                      ![s].targetLang =
                                          DualTargetFor(role, sessions2[s].lang)]
    /\ UNCHANGED <<selectedLang, detectedLang, driverConversation,
                   receptionistConversation, recorder2, now, page, singleVars, server>>

\* The finally block of onstop; nothing follows it.
DualFinally(s) ==
    /\ recordingState2' = [recordingState2 EXCEPT ![sessions2[s].role] = Idle]
    /\ sessions2' = [sessions2 EXCEPT ![s] = EndedSession2("done")]

\* fetch or response.json() rejects.
DualFetchRejected(s) ==
    /\ sessions2[s].pc = "fetching"
    /\ DualFinally(s)
    /\ UNCHANGED <<selectedLang, detectedLang, driverConversation,
                   receptionistConversation, recorder2, chunks2, now, page,
                   singleVars, server>>

\* A message of the second component and its copy for the other pane.
Message2(id, suffix, role, originalText, originalLang, translatedText) ==
    [id |-> <<id, suffix>>, role |-> role, originalText |-> originalText,
     originalLang |-> originalLang, translatedText |-> translatedText]

\* The route answers and the body parses: both panes get the message, then
\* playAudio is awaited inside the try (a missing payload makes atob throw).
DualFetchResolved(s, c, tick) ==
    LET role       == sessions2[s].role
        result     == POST(TRUE, sessions2[s].targetLang, c).body
        actualLang == ActualLang(sessions2[s].selected, result.originalLanguage)
        lang       == IF role = "driver" THEN actualLang ELSE "nl"
        own        == Message2(now + tick, "", role, result.originalText, lang,
                               result.translatedText)
        copy       == Message2(now + tick, IF role = "driver" THEN "-r" ELSE "-d",
                               role, result.originalText, lang,
                               result.translatedText)
    IN  /\ sessions2[s].pc = "fetching"
        /\ detectedLang' = IF role = "driver" THEN actualLang ELSE detectedLang
        /\ driverConversation' =
             Append(driverConversation, IF role = "driver" THEN own ELSE copy)
        /\ receptionistConversation' =
             Append(receptionistConversation, IF role = "driver" THEN copy ELSE own)
        /\ IF IsBase64(result.audioBase64)
           THEN /\ sessions2' = [sessions2 EXCEPT ![s].pc = "awaitPlay",
                                                  ![s].selected = Auto,
                                                  ![s].targetLang = ""]
                /\ UNCHANGED recordingState2
           ELSE DualFinally(s)
        /\ now' = now + tick
        /\ UNCHANGED <<selectedLang, recorder2, chunks2, page, singleVars, server>>

\* decodeAudioData resolves: source.start(), playAudio returns, finally.  The
\* source then plays to its end; nothing refers to it.
DualDecodeResolved(s) ==
    /\ sessions2[s].pc = "awaitPlay"
    /\ DualFinally(s)
    /\ UNCHANGED <<selectedLang, detectedLang, driverConversation,
                   receptionistConversation, recorder2, chunks2, now, page,
                   singleVars, server>>

\* decodeAudioData rejects: playAudio throws into the catch, finally.
DualDecodeRejected(s) ==
    /\ sessions2[s].pc = "awaitPlay"
    /\ DualFinally(s)
    /\ UNCHANGED <<selectedLang, detectedLang, driverConversation,
                   receptionistConversation, recorder2, chunks2, now, page,
                   singleVars, server>>

\* clearConversation of the second component.
DualClearConversation ==
    /\ driverConversation' = <<>>
    /\ receptionistConversation' = <<>>
    /\ detectedLang' = "nl"
    /\ UNCHANGED <<selectedLang, recordingState2, recorder2, chunks2, sessions2,
                   now, page, singleVars, server>>

\* ------------------------------------------------------------ the specification

Next ==
    \/ \E role \in Roles : page = "single" /\ HandleRecordingStart(role)
    \/ \E role \in Roles : page = "single" /\ HandleRecordingStop(role)
    \/ \E s \in Sessions : page = "single" /\ GetUserMediaResolved(s)
    \/ \E s \in Sessions : page = "single" /\ GetUserMediaRejected(s)
    \/ \E s \in Sessions : page = "single" /\ OnStop(s)
    \/ \E s \in Sessions : page = "single" /\ FetchRejected(s)
    \/ \E s \in Sessions, c \in Collaborators, tick \in Ticks :
         page = "single" /\ FetchResolved(s, c, tick)
    \/ \E a \in Sources : page = "single" /\ DecodeResolved(a)
    \/ \E a \in Sources : page = "single" /\ DecodeRejected(a)
    \/ \E a \in Sources : page = "single" /\ OnEnded(a)
    \/ \E i \in 1..MaxSessions : page = "single" /\ handleToggleAudio(i)
    \/ page = "single" /\ clearConversation
    \/ \E l \in {Auto} \cup SelectLangs : page = "dual" /\ SetSelectedLang(l)
    \/ \E role \in DualRoles : page = "dual" /\ DualHandleRecordingStart(role)
    \/ \E role \in DualRoles : page = "dual" /\ DualHandleRecordingStop(role)
    \/ \E s \in Sessions : page = "dual" /\ DualGetUserMediaResolved(s)
    \/ \E s \in Sessions : page = "dual" /\ DualGetUserMediaRejected(s)
    \/ \E s \in Sessions : page = "dual" /\ DualOnStop(s)
    \/ \E s \in Sessions : page = "dual" /\ DualFetchRejected(s)
    \/ \E s \in Sessions, c \in Collaborators, tick \in Ticks :
         page = "dual" /\ DualFetchResolved(s, c, tick)
    \/ \E s \in Sessions : page = "dual" /\ DualDecodeResolved(s)
    \/ \E s \in Sessions : page = "dual" /\ DualDecodeRejected(s)
    \/ page = "dual" /\ DualClearConversation

Spec == Init /\ [][Next]_vars

\* The route handler alone, serving one request after another, each with or
\* without a clip, the collaborators answering as they may.
ServerInit == Init /\ page = "single"

ServerNext ==
    \/ \E hasAudio \in BOOLEAN, field \in TargetFields :
         POSTReceived(hasAudio, field)
    \/ \E a \in RecognizerAnswers \cup EmptyRecognitions, message \in Errors :
         TranscriptionAnswered(a, message)
    \/ \E a \in TranslatorAnswers, message \in Errors :
         CompletionAnswered(a, message)
    \/ \E a \in SynthesizerAnswers, message \in Errors :
         SpeechAnswered(a, message)

ServerSpec == ServerInit /\ [][ServerNext]_vars

\* What the page does not decide itself comes about in the end: a submitted
\* request is answered or fails in transport, and decodeAudioData settles.
Answered(s) ==
    \/ FetchRejected(s)
    \/ \E c \in Collaborators, tick \in Ticks : FetchResolved(s, c, tick)

Decoded(a) == DecodeResolved(a) \/ DecodeRejected(a)

Fairness ==
    /\ \A s \in Sessions : WF_vars(Answered(s))
    /\ \A a \in Sources : WF_vars(Decoded(a))

FairSpec == Spec /\ Fairness

\* ------------------------------------------------------------------ properties

\* A turn with every field of the result present.
Complete(turn) ==
    /\ turn.originalText # Undefined
    /\ turn.originalLang # Undefined
    /\ turn.translatedText # Undefined
    /\ IsBase64(turn.audioBase64)

\* The status the route answers session s with, the collaborators answering c.
StatusOf(s, c) == POST(TRUE, sessions[s].targetLang, c).status
StatusOf2(s, c) == POST(TRUE, sessions2[s].targetLang, c).status

Playing == {a \in Sources : audioSources[a].state = "playing"}
Decoding == {a \in Sources : audioSources[a].state = "decoding"}

\* C1: a pipeline call appends exactly one turn when all stages succeed and none
\* when a stage or the transport fails, and no turn with a missing field is
\* ever in the log.
C1_OneTurnIffAllStagesSucceed ==
    [][/\ \A s \in Sessions : FetchRejected(s) => conversation' = conversation
       /\ \A s \in Sessions, c \in Collaborators, tick \in Ticks :
            FetchResolved(s, c, tick) =>
              IF StatusOf(s, c) = 200
              THEN Len(conversation') = Len(conversation) + 1
              ELSE conversation' = conversation
       /\ \A i \in 1..Len(conversation') : Complete(conversation'[i])]_vars

\* C2: at no time are two audio sources playing.
C2_AtMostOnePlayback == Cardinality(Playing) <= 1

\* C3: a counter call submitted while a driver language is recorded is sent
\* with that language as its target, whenever its recording was begun.
C3_CounterTargetsRecordedLanguage ==
    [][\A s \in Sessions :
         (OnStop(s) /\ sessions[s].role = "counter"
                    /\ detectedDriverLang \in DetectLangs)
         => sessions'[s].targetLang = detectedDriverLang]_vars

\* C4: a call that fails (transport, or a stage behind the route) leaves the
\* conversation and the playback state as they were.
C4_FailedCallChangesNothing ==
    [][\A s \in Sessions :
         (\/ FetchRejected(s)
          \/ \E c \in Collaborators, tick \in Ticks :
               FetchResolved(s, c, tick) /\ StatusOf(s, c) # 200)
         => /\ conversation' = conversation
            /\ playingMessageId' = playingMessageId
            /\ currentAudioSource' = currentAudioSource
            /\ audioSources' = audioSources]_vars

\* C5: detectedDriverLang changes only when a driver's call succeeds and when
\* the conversation is cleared.
C5_RouterChangesOnlyOnDriverSuccessOrClear ==
    [][detectedDriverLang' # detectedDriverLang =>
         \/ clearConversation
         \/ \E s \in Sessions, c \in Collaborators, tick \in Ticks :
              /\ FetchResolved(s, c, tick)
              /\ sessions[s].role = "driver"
              /\ StatusOf(s, c) = 200]_vars

\* C6: clearConversation, from any state, leaves the conversation empty and
\* the detected language at its default, with which the target of the
\* driver's counterpart is 'nl'; so in both components.
C6_ClearResets ==
    [][/\ clearConversation =>
            /\ conversation' = <<>>
            /\ detectedDriverLang' = ""
            /\ TargetFor("counter", detectedDriverLang') = "nl"
       /\ DualClearConversation =>
            /\ driverConversation' = <<>>
            /\ receptionistConversation' = <<>>
            /\ detectedLang' = "nl"
            /\ DualTargetFor("receptionist", detectedLang') = "nl"]_vars

\* C6 witness: the conversation is empty again after a turn had been played
\* (a source of it was stopped), with a language no longer recorded.
C6_Cleared ==
    /\ conversation = <<>>
    /\ detectedDriverLang = ""
    /\ \E a \in Sources : audioSources[a].state = "stopped"

\* C7: two handleToggleAudio calls on one message, the first made with the
\* playback idle and nothing but decode completions between and after them,
\* leave nothing playing and no playing id.
C7_ToggleTwiceIsIdle ==
    (toggleRun.n = 2 /\ Decoding = {}) => (playingMessageId = Null /\ Playing = {})

\* C8: a role never has two recorders recording at once.
C8_OneCaptureSessionPerRole ==
    \A role \in Roles :
      Cardinality({s \in Sessions : sessions[s].role = role
                                    /\ sessions[s].pc = "recording"}) <= 1

\* C9: the step that ends a failed call (the fetch rejects, the route answers
\* with an error, the decode of the answer's audio rejects) leaves the role
\* neither recording nor processing; so in both components.
C9_FailedCallResetsFlags ==
    [][\A s \in Sessions :
         /\ (\/ FetchRejected(s)
             \/ \E c \in Collaborators, tick \in Ticks :
                  FetchResolved(s, c, tick) /\ StatusOf(s, c) # 200
             \/ \E a \in Sources :
                  DecodeRejected(a) /\ audioSources[a].awaiter = s)
            => recordingState'[sessions[s].role] = Idle
         /\ (\/ DualFetchRejected(s)
             \/ \E c \in Collaborators, tick \in Ticks :
                  DualFetchResolved(s, c, tick) /\ StatusOf2(s, c) # 200
             \/ DualDecodeRejected(s))
            => recordingState2'[sessions2[s].role] = Idle]_vars

\* C9 witness: an error answer has been handled (its turn lacks the result's
\* fields) and the role is idle.
C9_FailedAndIdle ==
    \E i \in 1..Len(conversation) :
      /\ ~Complete(conversation[i])
      /\ recordingState[conversation[i].role] = Idle

\* C10: when the translator answers without content, the call succeeds, one
\* turn is appended, its translated text is the recognized text and its audio
\* is the speech synthesized from that text.
C10_SoftDegrade ==
    [][\A s \in Sessions, c \in Collaborators, tick \in Ticks :
         (/\ FetchResolved(s, c, tick)
          /\ c.recognizer.ok /\ c.translator.ok /\ c.synthesizer.ok
          /\ c.translator.content \in {NoContent, ""})
         => /\ StatusOf(s, c) = 200
            /\ Len(conversation') = Len(conversation) + 1
            /\ LET turn == conversation'[Len(conversation')] IN
               /\ turn.originalText = c.recognizer.text
               /\ turn.translatedText = c.recognizer.text
               /\ IsBase64(turn.audioBase64)
               /\ atob(turn.audioBase64) =
                    textToSpeech(c.recognizer.text, sessions[s].targetLang)]_vars

\* C10 witness: a complete turn whose translated text is its original text.
C10_EchoedTurn ==
    \E i \in 1..Len(conversation) :
      /\ Complete(conversation[i])
      /\ conversation[i].translatedText = conversation[i].originalText

\* The prefixes of a sequence.
Prefixes(seq) == {SubSeq(seq, 1, n) : n \in 0..Len(seq)}

\* The recognizer's call is over without a text to go on with: it rejected, or
\* it answered the empty text.
RecognizerUnusable ==
    /\ server.pc \in {"translating", "synthesizing", "responded"}
    /\ server.failed = "Recognize" \/ server.text = ""

\* C11: once the recognizer has rejected or answered the empty text, the call
\* has failed at Recognize: the translator and the synthesizer are not invoked
\* for it and the response, when given, is not a result.
C11_UnusableRecognitionFailsTheCall ==
    RecognizerUnusable =>
      /\ server.invoked = <<"Recognize">>
      /\ server.pc = "responded"
      /\ server.failed = "Recognize"
      /\ server.response.status # 200

\* C12: the collaborators invoked for a request are Recognize, Translate,
\* Synthesize in this order, none twice; a stage is invoked only when the one
\* before it has returned; once a stage has failed the request is answered
\* with no stage invoked after the failed one.
C12_StagesInOrderOnceEach ==
    /\ server.invoked \in Prefixes(Stages)
    /\ server.returned \in Prefixes(server.invoked)
    /\ Len(server.invoked) <= Len(server.returned) + 1
    /\ server.failed # "none" =>
         /\ server.pc = "responded"
         /\ server.invoked = Append(server.returned, server.failed)

\* C12 witness: the translator rejected after the recognizer had returned, and
\* the synthesizer was not invoked.
C12_StoppedAtTranslate ==
    /\ server.failed = "Translate"
    /\ server.returned = <<"Recognize">>
    /\ server.invoked = <<"Recognize", "Translate">>

\* C13: a request without a clip is answered 400 with no collaborator invoked;
\* a request whose stage rejected is answered 500 with the rejection's message
\* as its details; an answer of 200 is given only to a request with a clip all
\* of whose three stages returned.
C13_BoundaryStatuses ==
    server.pc = "responded" =>
      /\ ~server.hasAudio =>
           /\ server.response.status = 400
           /\ server.invoked = <<>>
      /\ (server.hasAudio /\ server.failed # "none") =>
           /\ server.response.status = 500
           /\ server.response.body.details \in Errors
      /\ server.response.status = 200 =>
           /\ server.hasAudio
           /\ server.failed = "none"
           /\ server.returned = Stages

\* C13 witness: a request without a clip has been answered 400, nothing invoked.
C13_RejectedWithoutClip ==
    /\ server.pc = "responded"
    /\ ~server.hasAudio
    /\ server.response.status = 400
    /\ server.invoked = <<>>

\* What translateAudio is to return for the collaborators' answers c.
ResultIsOf(result, targetLang, c) ==
    /\ result.originalText = c.recognizer.text
    /\ result.originalLanguage = c.recognizer.language
    /\ result.translatedText = translateText(c.recognizer.text, c.translator.content)
    /\ result.targetLanguage = targetLang
    /\ result.audio = textToSpeech(result.translatedText, targetLang)

\* The turn a successful call has appended carries the role, the two texts and
\* the audio of the result.
TurnCarries(turn, role, result) ==
    /\ turn.role = role
    /\ turn.originalText = result.originalText
    /\ turn.translatedText = result.translatedText
    /\ IsBase64(turn.audioBase64)
    /\ atob(turn.audioBase64) = result.audio

\* C14 as claimed: a successful call's result is made of the recognizer's text
\* and language, the translation, the target language asked for and the
\* synthesized audio, and the one turn appended for it carries the caller's
\* role and the result's original text, original language, translated text
\* and audio.
C14_TurnCarriesTheResult ==
    [][\A s \in Sessions, c \in Collaborators, tick \in Ticks :
         (FetchResolved(s, c, tick) /\ StatusOf(s, c) = 200) =>
           LET result == translateAudio(sessions[s].targetLang, c)
               turn   == conversation'[Len(conversation')]
           IN  /\ ResultIsOf(result, sessions[s].targetLang, c)
               /\ Len(conversation') = Len(conversation) + 1
               /\ TurnCarries(turn, sessions[s].role, result)
               /\ turn.originalLang = result.originalLanguage]_vars

\* C14 amended: as claimed, but the turn's original language is the result's
\* original language for the driver and the fixed 'nl' for the counter.
C14_TurnCarriesTheResultNlForCounter ==
    [][\A s \in Sessions, c \in Collaborators, tick \in Ticks :
         (FetchResolved(s, c, tick) /\ StatusOf(s, c) = 200) =>
           LET result == translateAudio(sessions[s].targetLang, c)
               turn   == conversation'[Len(conversation')]
           IN  /\ ResultIsOf(result, sessions[s].targetLang, c)
               /\ Len(conversation') = Len(conversation) + 1
               /\ TurnCarries(turn, sessions[s].role, result)
               /\ turn.originalLang =
                    IF sessions[s].role = "driver"
                    THEN result.originalLanguage ELSE "nl"]_vars

\* C14 witness: the log holds a complete turn of the driver in a detected
\* language and a complete, translated turn of the counter in 'nl'.
C14_TurnsOfBothRoles ==
    \E i, j \in 1..Len(conversation) :
      /\ Complete(conversation[i]) /\ Complete(conversation[j])
      /\ conversation[i].role = "driver"
      /\ conversation[i].originalLang \in DetectLangs
      /\ conversation[j].role = "counter"
      /\ conversation[j].originalLang = "nl"
      /\ conversation[j].translatedText = Translation

\* C15: the ids of the turns in the conversation are pairwise distinct and
\* increase along it.
C15_IdsDistinctAndIncreasing ==
    \A i, j \in 1..Len(conversation) :
      i < j => conversation[i].id < conversation[j].id

\* log is the beginning of longer.
IsPrefix(log, longer) ==
    /\ Len(log) <= Len(longer)
    /\ SubSeq(longer, 1, Len(log)) = log

\* C16: in every step that is not clearConversation the conversation as it was
\* is the beginning of the conversation as it is: turns are added at the end
\* and none is changed, moved or removed; so in both components.
C16_AppendOnly ==
    [][/\ clearConversation \/ IsPrefix(conversation, conversation')
       /\ \/ DualClearConversation
          \/ /\ IsPrefix(driverConversation, driverConversation')
             /\ IsPrefix(receptionistConversation, receptionistConversation')]_vars

\* C16 witness: a turn has been appended to a conversation that had one, which
\* is still its first.
C16_SecondTurnAppended ==
    /\ Len(conversation) = 2
    /\ conversation[1].role # conversation[2].role

\* C17: when the source of the turn that is marked as playing plays to its end,
\* that step alone (onended, no stop call) leaves no turn marked as playing and
\* no current source.
C17_NaturalEndClearsPlaying ==
    [][\A a \in Sources :
         (/\ OnEnded(a)
          /\ audioSources[a].state = "playing"
          /\ audioSources[a].messageId = playingMessageId)
         => /\ playingMessageId' = Null
            /\ currentAudioSource' = Null]_vars

\* C17 witness: the playing turn's source has just played to its end and no
\* turn is marked as playing.
C17_PlayedToTheEnd ==
    /\ history = "ended"
    /\ playingMessageId = Null
    /\ conversation # <<>>

\* C18: the step in which getUserMedia rejects leaves the conversation, the
\* detected language, the playback state and both roles' flags as they were;
\* a role that was idle is idle and passes the guards of handleRecording
\* again; so in both components.
C18_DeniedDeviceChangesNothing ==
    [][\A s \in Sessions :
         /\ GetUserMediaRejected(s) =>
              /\ UNCHANGED <<conversation, detectedDriverLang, playingMessageId,
                             currentAudioSource, audioSources, recordingState>>
              /\ recordingState[sessions[s].role] = Idle =>
                   /\ ~recordingState'[sessions[s].role].isRecording
                   /\ ~recordingState'[sessions[s].role].isProcessing
         /\ DualGetUserMediaRejected(s) =>
              UNCHANGED <<driverConversation, receptionistConversation,
                          detectedLang, selectedLang, recordingState2>>]_vars

\* C18 witness: getUserMedia has just rejected for an idle role while a turn
\* is in the conversation, a language is recorded and a turn is playing.
C18_DeniedWhileInUse ==
    /\ history = "denied"
    /\ conversation # <<>>
    /\ detectedDriverLang \in DetectLangs
    /\ playingMessageId # Null
    /\ \A role \in Roles : recordingState[role] = Idle

\* C19: a request whose stage rejected is answered with one error that names
\* the stage that failed and carries the rejection's message.
C19_ErrorNamesTheStage ==
    (server.pc = "responded" /\ server.failed # "none") =>
      /\ server.response.status = 500
      /\ server.response.body.details \in Errors
      /\ \E field \in DOMAIN server.response.body :
           server.response.body[field] = server.failed

\* C20: every answered call adds its own turn, under the id just read from the
\* clock, after all the turns that are in the conversation when it is
\* answered, whatever other call is pending and whichever was submitted first:
\* no turn is lost and the turns stand in the order of the answers.
C20_AppendsInCompletionOrder ==
    [][\A s \in Sessions, c \in Collaborators, tick \in Ticks :
         FetchResolved(s, c, tick) =>
           /\ Len(conversation') = Len(conversation) + 1
           /\ IsPrefix(conversation, conversation')
           /\ conversation'[Len(conversation')].role = sessions[s].role
           /\ conversation'[Len(conversation')].id = now']_vars

\* C20 witness: the call submitted first has just been answered, after the
\* call of the other role that was submitted while it was pending; both turns
\* are in the conversation, in the order of the answers.
C20_OvertakenCallAnswered ==
    /\ history = "overtaken"
    /\ Len(conversation) = 2
    /\ conversation[1].role # conversation[2].role

\* C21: the ended event of a source that was stopped, or that a newer playback
\* has replaced as the current one, leaves the newer playback alone: a source
\* that is playing and is the current one, with its turn marked as playing, is
\* so after the event too.
C21_EndOfOlderSourceKeepsNewer ==
    [][\A a, b \in Sources :
         (/\ OnEnded(a)
          /\ a # b
          /\ audioSources[b].state = "playing"
          /\ currentAudioSource = b
          /\ playingMessageId = audioSources[b].messageId)
         => /\ currentAudioSource' = b
            /\ playingMessageId' = playingMessageId]_vars

\* The sessions of a role whose request is with the route, and those whose
\* recorder is started and not stopped.
CallsInFlight(role) ==
    {s \in Sessions : sessions[s].role = role /\ sessions[s].pc = "fetching"}
Recording(role) ==
    {s \in Sessions : sessions[s].role = role /\ sessions[s].pc = "recording"}

\* C22: a role has at most one request with the route at a time, and while it
\* has one its isProcessing flag is set.
C22_OneCallPerRoleFlagged ==
    \A role \in Roles :
      /\ Cardinality(CallsInFlight(role)) <= 1
      /\ CallsInFlight(role) # {} => recordingState[role].isProcessing

\* C23: a role's isRecording flag is set exactly when a recorder of the role is
\* started and not stopped; there is at most one such recorder and it is the
\* one in the role's recorder ref.
C23_FlagMeansTheReferencedRecorder ==
    \A role \in Roles :
      /\ recordingState[role].isRecording <=> Recording(role) # {}
      /\ \A s \in Recording(role) : recorder[role] = s

\* C24: when another turn is asked to play while a turn is marked as playing
\* (its button is toggled, or a call's turn arrives and is played), the step
\* leaves a turn marked as playing: the mark is never seen to be none between
\* the one turn and the other.
C24_NoIdleBetweenTurns ==
    [][/\ \A i \in 1..Len(conversation) :
            (/\ handleToggleAudio(i)
             /\ playingMessageId # Null
             /\ playingMessageId # conversation[i].id)
            => playingMessageId' # Null
       /\ \A s \in Sessions, c \in Collaborators, tick \in Ticks :
            (/\ FetchResolved(s, c, tick)
             /\ StatusOf(s, c) = 200
             /\ playingMessageId # Null)
            => playingMessageId' # Null]_vars

\* C25: a session whose onstop has returned, the call having succeeded or
\* failed, holds no open stream; so in both components.
C25_StreamReleasedAfterOnStop ==
    \A s \in Sessions :
      /\ sessions[s].pc = "done" => ~StreamOpen(s)
      /\ sessions2[s].pc = "done" => ~DualStreamOpen(s)

\* C26: the clip that onstop builds is made of the fragments of its own
\* session, all of them and no other: of the one fragment its recorder
\* delivered when it was stopped.
C26_ClipIsTheSessionsFragments ==
    [][\A s \in Sessions :
         OnStop(s) => chunks'[sessions[s].role] = <<s>>]_vars

\* Where a role's flags put its recording session.
Phase(flags) ==
    CASE flags.isRecording /\ flags.isProcessing -> "both"
      [] flags.isRecording                        -> "recording"
      [] flags.isProcessing                       -> "processing"
      [] OTHER                                    -> "idle"

\* The moves of a recording session: idle, recording, processing (finalizing
\* and the call), idle.
PhaseMoves ==
    {<<"idle", "recording">>, <<"recording", "processing">>,
     <<"processing", "idle">>}

\* C27: a role is never both recording and processing, and every step leaves
\* its flags where they are or moves them from idle to recording, from
\* recording to processing, or from processing to idle.
C27_SessionMovesInACircle ==
    [][\A role \in Roles :
         /\ Phase(recordingState'[role]) # "both"
         /\ \/ Phase(recordingState'[role]) = Phase(recordingState[role])
            \/ <<Phase(recordingState[role]), Phase(recordingState'[role])>>
                 \in PhaseMoves]_vars

\* The step is the one in which the request of session s is answered or
\* fails, or the decode that its onstop awaits settles.
CallMovesOn(s) ==
    \/ Answered(s)
    \/ \E a \in Sources : Decoded(a) /\ audioSources[a].awaiter = s

\* C28: a submitted call is moved on by nothing but its own answer and the
\* decode it awaits (no trigger, toggle or clear takes it away); an answer that
\* is a result appends a turn; the step that ends the call leaves the role
\* idle; and, the request being answered and the decode settling in the end,
\* every submitted call ends.
C28_SubmittedCallCompletes ==
    /\ [][\A s \in Sessions :
            sessions[s].pc \in {"fetching", "awaitPlay"} =>
              /\ sessions'[s] = sessions[s] \/ CallMovesOn(s)
              /\ (\E c \in Collaborators, tick \in Ticks :
                    FetchResolved(s, c, tick) /\ StatusOf(s, c) = 200)
                 => Len(conversation') = Len(conversation) + 1
              /\ sessions'[s].pc = "done" =>
                   recordingState'[sessions[s].role] = Idle]_vars
    /\ \A s \in Sessions :
         (sessions[s].pc = "fetching") ~> (sessions[s].pc = "done")

\* C28 witness: a call has just been answered with a result and its turn
\* appended, after the other role had stopped, submitted and been answered
\* while it was pending.
C28_AnsweredAfterOthersActions ==
    /\ history = "overtaken"
    /\ Len(conversation) = 2
    /\ Complete(conversation[2])
    /\ \E s \in Sessions : sessions[s].pc = "awaitPlay"

\* C29: a call that was under way when the conversation was cleared does not,
\* when it is answered, put a turn into the cleared conversation or set the
\* detected language: answered right after the clear, it leaves both as the
\* clear left them.
C29_ClearIsNotUndone ==
    [][\A s \in Sessions, c \in Collaborators, tick \in Ticks :
         (history = "cleared" /\ FetchResolved(s, c, tick))
         => /\ conversation' = <<>>
            /\ detectedDriverLang' = ""]_vars

\* C30: the turn marked as playing, if any, is a turn of the conversation.
C30_PlayingTurnIsInTheLog ==
    playingMessageId # Null =>
      \E i \in 1..Len(conversation) : conversation[i].id = playingMessageId

\* C31: in every reachable state a request of the driver would be, and every
\* request of the driver is, sent with the target 'nl', whatever language is
\* recorded; a request of the counter with the recorded language of the
\* driver, and with 'nl' when none is recorded (at the start, after a clear,
\* or the recorded value being empty or missing); the target a counter's
\* onstop sends is this function of the detectedDriverLang it reads.
C31_TargetFor ==
    /\ [](/\ TargetFor("driver", detectedDriverLang) = "nl"
          /\ TargetFor("counter", detectedDriverLang) =
               IF detectedDriverLang \in DetectLangs
               THEN detectedDriverLang ELSE "nl")
    /\ [][\A s \in Sessions :
            OnStop(s) =>
              sessions'[s].targetLang =
                IF sessions[s].role = "counter" /\ sessions[s].lang \in DetectLangs
                THEN sessions[s].lang ELSE "nl"]_vars

\* C31 witness: a language is recorded and a request of the counter is under
\* way with it as its target, after a request of the driver went with 'nl'.
C31_CounterSentToRecordedLanguage ==
    /\ detectedDriverLang \in DetectLangs
    /\ \E s \in Sessions :
         /\ sessions[s].role = "counter"
         /\ sessions[s].pc = "fetching"
         /\ sessions[s].targetLang = detectedDriverLang
    /\ \E i \in 1..Len(conversation) :
         /\ conversation[i].role = "driver"
         /\ Complete(conversation[i])
         /\ atob(conversation[i].audioBase64)[2] = VoiceFor("nl")

====
